---------------------------- MODULE Spec2Model ----------------------------
(***************************************************************************)
(* The conversational assistant of src/pages/Dashboards/PatientDashboard   *)
(* (.tsx): the message history, the in-flight flag, the selected language, *)
(* the text field, the voice capture toggle, the speak button and the      *)
(* asynchronous exchange started by handleAskAI.                           *)
(*                                                                         *)
(* Texts and language tags are sequences of one-character strings, so that *)
(* trim, startsWith, split and the bracketed prefix of translateText are   *)
(* computed and not assumed.  The three fixed sentences of the source (the *)
(* apology, the placeholder and the disclaimer) are one token each.        *)
(*                                                                         *)
(* Every event handler runs to its first await as one step; each await is  *)
(* a step of its own, taken when the awaited promise settles.  A handler   *)
(* reads the component state of the latest render and keeps what it read   *)
(* in its closure (the fields of a task) across its awaits.                *)
(***************************************************************************)
EXTENDS Naturals, Sequences, FiniteSets

VARIABLES
    userInput,          \* useState('')            line 27
    chatHistory,        \* useState<ChatMessage[]> line 28
    isLoading,          \* useState(false)         line 29
    isListening,        \* useState(false)         line 30
    selectedLanguage,   \* useState('en-US')       line 31
    tasks,              \* the calls of handleAskAI that passed the entry guard
    lastSubmit,         \* what handleAskAI did, if the latest step called it
    hasRecognition,     \* recognition !== null    lines 15-21
    recognizer,         \* the platform recognizer behind `recognition`
    notice,             \* the alert() shown by the latest step, if any
    result,             \* the body parsed at line 161 by the latest step, if any
    spoken,             \* the arguments of speakText, if the latest step called it
    tIn, tOut           \* arguments and settlement of a direct translateText call

vars == <<userInput, chatHistory, isLoading, isListening, selectedLanguage,
          tasks, lastSubmit, hasRecognition, recognizer, notice, result,
          spoken, tIn, tOut>>

sessionVars == <<userInput, chatHistory, isLoading, isListening,
                 selectedLanguage, tasks, lastSubmit, hasRecognition,
                 recognizer, notice, result, spoken>>

-----------------------------------------------------------------------------
(* Bounds *)

\* handleAskAI passes its entry guard at most this many times in a run
MaxExchanges == 2

\* longest text given to a direct translateText call
MaxTextLen == 2

-----------------------------------------------------------------------------
(* Texts *)

EnUS == <<"e", "n", "-", "U", "S">>
HiIN == <<"h", "i", "-", "I", "N">>
MrIN == <<"m", "r", "-", "I", "N">>

\* the session languages: English and one of the two other <option> values of
\* the select (mr-IN differs from hi-IN only in the prefix translateText writes)
Languages == {EnUS, HiIN}

\* what the user can leave in the text field
InputTexts == {<<>>, <<" ">>, <<" ", "a", " ">>}

\* what the recognizer can hear
Transcripts == {<<"v">>}

ApologyText == <<"I'm having trouble connecting right now. Please try again.">>
PlaceholderText == <<"Sorry, I couldn't process that.">>
Disclaimer == "This is AI-generated advice. Please consult your Vaidya (doctor) for any medical decisions."

\* result.candidates?.[0]?.content?.parts?.[0]?.text of a parsed response:
\* a reply ending with the disclaimer, an empty string, or no such field
ResponseBodies ==
    { [hasText |-> TRUE,  text |-> <<"r", Disclaimer>>],
      [hasText |-> TRUE,  text |-> <<>>],
      [hasText |-> FALSE, text |-> <<>>] }

IsWhitespace(c) == c = " "

RECURSIVE TrimStart(_)
TrimStart(s) ==
    IF s = <<>> THEN <<>>
    ELSE IF IsWhitespace(Head(s)) THEN TrimStart(Tail(s))
    ELSE s

RECURSIVE TrimEnd(_)
TrimEnd(s) ==
    IF s = <<>> THEN <<>>
    ELSE IF IsWhitespace(s[Len(s)]) THEN TrimEnd(SubSeq(s, 1, Len(s) - 1))
    ELSE s

\* String.prototype.trim
Trim(s) == TrimEnd(TrimStart(s))

\* String.prototype.startsWith
StartsWith(s, prefix) ==
    /\ Len(prefix) <= Len(s)
    /\ SubSeq(s, 1, Len(prefix)) = prefix

RECURSIVE SplitFirst(_, _)
\* s.split(sep)[0]: the part of s before the first sep, all of s if none
SplitFirst(s, sep) ==
    IF s = <<>> THEN <<>>
    ELSE IF Head(s) = sep THEN <<>>
    ELSE <<Head(s)>> \o SplitFirst(Tail(s), sep)

\* no body was parsed, no utterance was made in the step
NoResult == [hasText |-> FALSE, text |-> <<"-">>]
NoUtterance == [text |-> <<>>, lang |-> <<>>]

\* the settlements of a Promise<string>, and a promise not settled yet
Fulfilled(v) == [status |-> "fulfilled", value |-> v]
Rejected == [status |-> "rejected", value |-> <<>>]
NotSettled == [status |-> "pending", value |-> <<>>]

-----------------------------------------------------------------------------
(* Translation Bridge *)

\* Faulty variant: English is recognised by the exact tag 'en-US'
IsEnglish_ExactTag(lang) == lang = EnUS

\* Faulty variant: every language is taken for one to translate
IsEnglish_Never(lang) == lang = <<>>

\* selectedLanguage.startsWith('en'), targetLang.startsWith('en')
IsEnglish(lang) == StartsWith(lang, <<"e", "n">>)

\* Faulty variant: the body is the provider request sketched in the comment of
\* lines 101-108, and the request fails
TranslateText_ProviderDown(text, targetLang, sourceLang) == Rejected

\* Faulty variant: the template of line 110 without the text
TranslateText_TagOnly(text, targetLang, sourceLang) ==
    IF StartsWith(targetLang, <<"e", "n">>) THEN Fulfilled(text)
    ELSE Fulfilled(<<"[">> \o SplitFirst(targetLang, "-") \o <<"]">>)

\* translateText: the settlement of the promise the async function returns
TranslateText(text, targetLang, sourceLang) ==
    IF IsEnglish(targetLang)
    THEN Fulfilled(text)
    ELSE Fulfilled(<<"[">> \o SplitFirst(targetLang, "-") \o <<"]", " ">> \o text)

-----------------------------------------------------------------------------
(* Conversation Orchestrator: handleAskAI *)

\* Faulty variant: the message holds the trimmed text
UserMessage_Trimmed(text) == [role |-> "user", text |-> Trim(text)]

UserMessage(text) == [role |-> "user", text |-> text]
ModelMessage(text) == [role |-> "model", text |-> text]

TranslateCall(text, targetLang, sourceLang) ==
    [op |-> "translate", text |-> text, target |-> targetLang, source |-> sourceLang]
GenerateCall(englishQuery) ==
    [op |-> "generate", text |-> englishQuery, target |-> <<>>, source |-> <<>>]

\* Faulty variant: the early return does not look at isLoading
EntryGuard_NoFlag(input, loading) == Trim(input) = <<>>

\* Faulty variant: the early return does not trim the text
EntryGuard_NoTrim(input, loading) == input = <<>> \/ loading

\* Faulty variant: a text the history already holds as a user message is
\* not sent again
EntryGuard_Dedup(input, loading) ==
    \/ Trim(input) = <<>>
    \/ loading
    \/ \E k \in 1..Len(chatHistory) : chatHistory[k] = UserMessage(input)

\* the condition of the early return of handleAskAI
EntryGuard(input, loading) == Trim(input) = <<>> \/ loading

\* the closure of one call of handleAskAI and the await it is suspended at
NewTask(pc, input, lang, history, query, calls) ==
    [pc |-> pc, userInput |-> input, selectedLanguage |-> lang,
     updatedHistory |-> history, englishQuery |-> query,
     modelResponseInEnglish |-> <<>>, calls |-> calls, error |-> "none"]

\* fetch(apiUrl, ...) is issued with englishQuery in the payload
IssueFetch(t, englishQuery) ==
    [t EXCEPT !.pc = "fetch", !.englishQuery = englishQuery,
              !.calls = Append(@, GenerateCall(englishQuery))]

\* lines 115-127, and the fetch of line 150 when no translation is awaited.
\* Both onKeyDown (line 595) and onClick (line 611) call it; the guard of the
\* handler decides, not the disabled attribute of the controls.
HandleAskAI ==
    /\ IF EntryGuard(userInput, isLoading)
       THEN /\ lastSubmit' = "ignored"
            /\ UNCHANGED <<userInput, chatHistory, isLoading, tasks>>
       ELSE /\ Len(tasks) < MaxExchanges
            /\ lastSubmit' = "started"
            /\ isLoading' = TRUE
            /\ chatHistory' = Append(chatHistory, UserMessage(userInput))
            /\ userInput' = <<>>
            /\ LET updatedHistory == Append(chatHistory, UserMessage(userInput))
               IN tasks' = Append(tasks,
                      IF IsEnglish(selectedLanguage)
                      THEN IssueFetch(NewTask("fetch", userInput, selectedLanguage,
                                              updatedHistory, <<>>, <<>>),
                                      userInput)
                      ELSE NewTask("translateIn", userInput, selectedLanguage,
                                   updatedHistory, <<>>,
                                   <<TranslateCall(userInput, EnUS, selectedLanguage)>>))
    /\ notice' = "none"
    /\ result' = NoResult
    /\ spoken' = NoUtterance
    /\ UNCHANGED <<isListening, selectedLanguage, hasRecognition, recognizer,
                   tIn, tOut>>

\* Faulty variant: setIsLoading(false) is missing on the failure path
CatchFinally_NoFinally(i, error) ==
    /\ chatHistory' = Append(tasks[i].updatedHistory, ModelMessage(ApologyText))
    /\ UNCHANGED isLoading
    /\ tasks' = [tasks EXCEPT ![i].pc = "apologised", ![i].error = error]

\* Faulty variant: the apology is translated to the language of the exchange
CatchFinally_TranslatedApology(i, error) ==
    /\ chatHistory' = Append(tasks[i].updatedHistory,
           ModelMessage(TranslateText(ApologyText, tasks[i].selectedLanguage, EnUS).value))
    /\ isLoading' = FALSE
    /\ tasks' = [tasks EXCEPT ![i].pc = "apologised", ![i].error = error]

\* catch (lines 172-175) of the error thrown in the try block, by the
\* generation call (fetch, response.ok, response.json) or by the translation
\* of the reply, and finally (lines 176-178)
CatchFinally(i, error) ==
    /\ chatHistory' = Append(tasks[i].updatedHistory, ModelMessage(ApologyText))
    /\ isLoading' = FALSE
    /\ tasks' = [tasks EXCEPT ![i].pc = "apologised", ![i].error = error]

\* Faulty variant: the reply is appended to the chatHistory of the closure,
\* which does not hold the user message yet
ReplyFinally_StaleHistory(i, modelResponseInEnglish, translatedResponse) ==
    /\ chatHistory' = Append(SubSeq(tasks[i].updatedHistory, 1,
                                    Len(tasks[i].updatedHistory) - 1),
                             ModelMessage(translatedResponse))
    /\ isLoading' = FALSE
    /\ tasks' = [tasks EXCEPT ![i].pc = "replied",
                              ![i].modelResponseInEnglish = modelResponseInEnglish]

\* lines 162-170 and finally (176-178)
ReplyFinally(i, modelResponseInEnglish, translatedResponse) ==
    /\ chatHistory' = Append(tasks[i].updatedHistory, ModelMessage(translatedResponse))
    /\ isLoading' = FALSE
    /\ tasks' = [tasks EXCEPT ![i].pc = "replied",
                              ![i].modelResponseInEnglish = modelResponseInEnglish]

\* what a resumed exchange leaves alone; no call of handleAskAI and no
\* alert() happens in such a step
ExchangeFrame ==
    /\ lastSubmit' = "none"
    /\ notice' = "none"
    /\ spoken' = NoUtterance
    /\ UNCHANGED <<userInput, isListening, selectedLanguage, hasRecognition,
                   recognizer, tIn, tOut>>

\* the await of line 127 resumes; it is not inside the try block
TranslateInSettles(i) ==
    /\ tasks[i].pc = "translateIn"
    /\ LET t == tasks[i]
           p == TranslateText(t.userInput, EnUS, t.selectedLanguage)
       IN IF p.status = "fulfilled"
          THEN tasks' = [tasks EXCEPT ![i] = IssueFetch(t, p.value)]
          ELSE tasks' = [tasks EXCEPT ![i].pc = "unhandledRejection",
                                      ![i].error = "translation"]
    /\ UNCHANGED <<chatHistory, isLoading>>
    /\ result' = NoResult
    /\ ExchangeFrame

\* Faulty variant: the flag is cleared as soon as a response arrives
FetchSettles_ClearsEarly(i) ==
    /\ tasks[i].pc = "fetch"
    /\ \/ CatchFinally(i, "generation")
       \/ /\ tasks' = [tasks EXCEPT ![i].pc = "errorBody"]
          /\ UNCHANGED <<chatHistory, isLoading>>
       \/ /\ tasks' = [tasks EXCEPT ![i].pc = "json"]
          /\ isLoading' = FALSE
          /\ UNCHANGED chatHistory
    /\ result' = NoResult
    /\ ExchangeFrame

\* the await of line 150 resumes: the fetch rejected, or a response arrived
FetchSettles(i) ==
    /\ tasks[i].pc = "fetch"
    /\ \/ CatchFinally(i, "generation")
       \/ /\ tasks' = [tasks EXCEPT ![i].pc = "errorBody"]
          /\ UNCHANGED <<chatHistory, isLoading>>
       \/ /\ tasks' = [tasks EXCEPT ![i].pc = "json"]
          /\ UNCHANGED <<chatHistory, isLoading>>
    /\ result' = NoResult
    /\ ExchangeFrame

\* lines 156-159: the error body parses and Error is thrown, or json() rejects
ErrorBodySettles(i) ==
    /\ tasks[i].pc = "errorBody"
    /\ CatchFinally(i, "generation")
    /\ result' = NoResult
    /\ ExchangeFrame

\* Faulty variant: the text of the body is taken without the fallback
ModelResponseInEnglish_NoFallback(body) == body.text

\* result.candidates?.[0]?.content?.parts?.[0]?.text || "Sorry, ..."
ModelResponseInEnglish(body) ==
    IF body.hasText /\ body.text # <<>> THEN body.text ELSE PlaceholderText

\* Faulty variant: the reply is appended as generated, whatever the language
JsonSettles_NoTranslateBack(i) ==
    /\ tasks[i].pc = "json"
    /\ \/ /\ CatchFinally(i, "generation")
          /\ result' = NoResult
       \/ \E body \in ResponseBodies :
            /\ result' = body
            /\ ReplyFinally(i, ModelResponseInEnglish(body),
                            ModelResponseInEnglish(body))
    /\ ExchangeFrame

\* Faulty variant: the reply is translated to the language selected when the
\* response arrives, not to the one the handler was called with
JsonSettles_CurrentLanguage(i) ==
    /\ tasks[i].pc = "json"
    /\ \/ /\ CatchFinally(i, "generation")
          /\ result' = NoResult
       \/ \E body \in ResponseBodies :
            LET r == ModelResponseInEnglish(body)
            IN /\ result' = body
               /\ IF IsEnglish(selectedLanguage)
                  THEN ReplyFinally(i, r, r)
                  ELSE /\ tasks' = [tasks EXCEPT
                             ![i].pc = "translateOut",
                             ![i].modelResponseInEnglish = r,
                             ![i].calls = Append(@, TranslateCall(r, selectedLanguage, EnUS))]
                       /\ UNCHANGED <<chatHistory, isLoading>>
    /\ ExchangeFrame

\* the await of line 161 resumes: json() rejected, or the body was parsed
JsonSettles(i) ==
    /\ tasks[i].pc = "json"
    /\ \/ /\ CatchFinally(i, "generation")
          /\ result' = NoResult
       \/ \E body \in ResponseBodies :
            LET t == tasks[i]
                r == ModelResponseInEnglish(body)
            IN /\ result' = body
               /\ IF IsEnglish(t.selectedLanguage)
                  THEN ReplyFinally(i, r, r)
                  ELSE /\ tasks' = [tasks EXCEPT
                             ![i].pc = "translateOut",
                             ![i].modelResponseInEnglish = r,
                             ![i].calls = Append(@, TranslateCall(r, t.selectedLanguage, EnUS))]
                       /\ UNCHANGED <<chatHistory, isLoading>>
    /\ ExchangeFrame

\* the await of line 167 resumes, inside the try block
TranslateOutSettles(i) ==
    /\ tasks[i].pc = "translateOut"
    /\ LET t == tasks[i]
           p == TranslateText(t.modelResponseInEnglish, t.selectedLanguage, EnUS)
       IN IF p.status = "fulfilled"
          THEN ReplyFinally(i, t.modelResponseInEnglish, p.value)
          ELSE CatchFinally(i, "translation")
    /\ result' = NoResult
    /\ ExchangeFrame

-----------------------------------------------------------------------------
(* Text field and language select *)

\* disabled={isLoading || isListening} of the text input
InputDisabled == isLoading \/ isListening

\* onChange={(e) => setUserInput(e.target.value)}
SetUserInput(text) ==
    /\ ~InputDisabled
    /\ text # userInput
    /\ userInput' = text
    /\ lastSubmit' = "none"
    /\ notice' = "none"
    /\ result' = NoResult
    /\ spoken' = NoUtterance
    /\ UNCHANGED <<chatHistory, isLoading, isListening, selectedLanguage, tasks,
                   hasRecognition, recognizer, tIn, tOut>>

\* onChange={(e) => setSelectedLanguage(e.target.value)}
SetSelectedLanguage(lang) ==
    /\ lang # selectedLanguage
    /\ selectedLanguage' = lang
    /\ lastSubmit' = "none"
    /\ notice' = "none"
    /\ result' = NoResult
    /\ spoken' = NoUtterance
    /\ UNCHANGED <<userInput, chatHistory, isLoading, isListening, tasks,
                   hasRecognition, recognizer, tIn, tOut>>

-----------------------------------------------------------------------------
(* Voice Capture: handleToggleListening and the recognizer's events *)

\* what the voice handlers leave alone; they do not call handleAskAI
VoiceFrame ==
    /\ lastSubmit' = "none"
    /\ result' = NoResult
    /\ spoken' = NoUtterance
    /\ UNCHANGED <<chatHistory, isLoading, selectedLanguage, tasks,
                   hasRecognition, tIn, tOut>>

\* lines 43-46
NoRecognition ==
    /\ ~hasRecognition
    /\ notice' = "noRecognition"
    /\ UNCHANGED <<userInput, isListening, recognizer>>

\* lines 48-50: recognition.stop() lets the recognizer finish with what it
\* heard; an error the recognizer has yet to report is still reported
StopListening ==
    /\ hasRecognition
    /\ isListening
    /\ recognizer' = IF recognizer = "listening" THEN "stopping" ELSE recognizer
    /\ isListening' = FALSE
    /\ notice' = "none"
    /\ UNCHANGED userInput

\* lines 52-55 and 63-81: recognition.start() returns; the platform either
\* recognises the language or will report 'language-not-supported'
StartListening ==
    /\ hasRecognition
    /\ ~isListening
    /\ recognizer = "inactive"
    /\ \E supported \in BOOLEAN :
           recognizer' = IF supported THEN "listening" ELSE "failing"
    /\ isListening' = TRUE
    /\ notice' = "none"
    /\ UNCHANGED userInput

\* lines 52-61: recognition.start() throws, because the recognizer has not
\* ended yet or because the platform refuses the language at once
StartThrows ==
    /\ hasRecognition
    /\ ~isListening
    /\ notice' = "languageNotSupported"
    /\ isListening' = FALSE
    /\ UNCHANGED <<userInput, recognizer>>

HandleToggleListening ==
    /\ \/ NoRecognition
       \/ StopListening
       \/ StartListening
       \/ StartThrows
    /\ VoiceFrame

\* Faulty variant: recognition.continuous is true, so the recognizer goes on
\* listening after a result
OnResult_Continuous(transcript) ==
    /\ recognizer \in {"listening", "stopping"}
    /\ userInput' = transcript
    /\ isListening' = FALSE
    /\ recognizer' = recognizer
    /\ notice' = "none"
    /\ VoiceFrame

\* recognition.onresult, lines 63-67; continuous is false (line 19), so the
\* result ends the capture
OnResult(transcript) ==
    /\ recognizer \in {"listening", "stopping"}
    /\ userInput' = transcript
    /\ isListening' = FALSE
    /\ recognizer' = "ending"
    /\ notice' = "none"
    /\ VoiceFrame

\* Faulty variant: every error is only logged
OnError_LogsOnly ==
    /\ recognizer \in {"failing", "listening", "stopping"}
    /\ notice' = "none"
    /\ isListening' = FALSE
    /\ recognizer' = "ending"
    /\ UNCHANGED userInput
    /\ VoiceFrame

\* Faulty variant: an error of the recognizer also clears the in-flight flag
OnError_ClearsLoading ==
    /\ \/ /\ recognizer = "failing"
          /\ notice' = "languageNotSupported"
       \/ /\ recognizer \in {"listening", "stopping"}
          /\ notice' = "none"
    /\ isListening' = FALSE
    /\ isLoading' = FALSE
    /\ recognizer' = "ending"
    /\ lastSubmit' = "none"
    /\ result' = NoResult
    /\ spoken' = NoUtterance
    /\ UNCHANGED <<userInput, chatHistory, selectedLanguage, tasks,
                   hasRecognition, tIn, tOut>>

\* recognition.onerror, lines 69-77
OnError ==
    /\ \/ /\ recognizer = "failing"
          /\ notice' = "languageNotSupported"
       \/ /\ recognizer \in {"listening", "stopping"}
          /\ notice' = "none"
    /\ isListening' = FALSE
    /\ recognizer' = "ending"
    /\ UNCHANGED userInput
    /\ VoiceFrame

\* recognition.onend, lines 79-81
OnEnd ==
    /\ recognizer \in {"listening", "stopping", "ending"}
    /\ isListening' = FALSE
    /\ recognizer' = "inactive"
    /\ notice' = "none"
    /\ UNCHANGED userInput
    /\ VoiceFrame

-----------------------------------------------------------------------------
(* Speech Output: the speak button of a message and speakText *)

\* Faulty variant: the button is rendered on every message
SpeakButtonShown_EveryMessage(msg) == msg.role \in {"user", "model"}

\* line 571: the condition the button is rendered under
SpeakButtonShown(msg) == msg.role = "model"

\* lines 86-94; whether window has speechSynthesis is read at each call
SpeakText(text, lang) ==
    /\ spoken' = [text |-> text, lang |-> lang]
    /\ \E available \in BOOLEAN :
           notice' = IF available THEN "none" ELSE "noSpeechSynthesis"
    /\ lastSubmit' = "none"
    /\ result' = NoResult
    /\ UNCHANGED <<userInput, chatHistory, isLoading, isListening,
                   selectedLanguage, tasks, hasRecognition, recognizer,
                   tIn, tOut>>

\* lines 569-575: the button of message k is clicked
SpeakButton(k) ==
    /\ SpeakButtonShown(chatHistory[k])
    /\ SpeakText(chatHistory[k].text, selectedLanguage)

-----------------------------------------------------------------------------
(* The session *)

NoCall == [text |-> <<>>, target |-> <<>>, source |-> <<>>]

SessionInit ==
    /\ userInput = <<>>
    /\ chatHistory = <<>>
    /\ isLoading = FALSE
    /\ isListening = FALSE
    /\ selectedLanguage = EnUS
    /\ tasks = <<>>
    /\ lastSubmit = "none"
    /\ hasRecognition \in BOOLEAN
    /\ recognizer = "inactive"
    /\ notice = "none"
    /\ result = NoResult
    /\ spoken = NoUtterance

Init ==
    /\ SessionInit
    /\ tIn = NoCall
    /\ tOut = NotSettled

Next ==
    \/ HandleAskAI
    \/ \E i \in 1..Len(tasks) : TranslateInSettles(i)
    \/ \E i \in 1..Len(tasks) : FetchSettles(i)
    \/ \E i \in 1..Len(tasks) : ErrorBodySettles(i)
    \/ \E i \in 1..Len(tasks) : JsonSettles(i)
    \/ \E i \in 1..Len(tasks) : TranslateOutSettles(i)
    \/ \E text \in InputTexts : SetUserInput(text)
    \/ \E lang \in Languages : SetSelectedLanguage(lang)
    \/ HandleToggleListening
    \/ \E transcript \in Transcripts : OnResult(transcript)
    \/ OnError
    \/ OnEnd

Spec == Init /\ [][Next]_vars

\* the session with the speak buttons of the messages
PlaybackNext ==
    \/ Next
    \/ \E k \in 1..Len(chatHistory) : SpeakButton(k)

PlaybackSpec == Init /\ [][PlaybackNext]_vars

\* the await that exchange i is suspended at resumes
Settles(i) ==
    \/ TranslateInSettles(i)
    \/ FetchSettles(i)
    \/ ErrorBodySettles(i)
    \/ JsonSettles(i)
    \/ TranslateOutSettles(i)

\* every awaited call eventually returns or fails
Fairness == \A i \in 1..MaxExchanges : WF_vars(i <= Len(tasks) /\ Settles(i))

FairSpec == Spec /\ Fairness

\* the recognizer raises one of its events
RecognizerEmits ==
    \/ \E transcript \in Transcripts : OnResult(transcript)
    \/ OnError
    \/ OnEnd

\* a started recognizer eventually raises result, error or end
VoiceFairness == WF_vars(RecognizerEmits)

VoiceFairSpec == Spec /\ VoiceFairness

-----------------------------------------------------------------------------
(* translateText called on its own *)

RECURSIVE TextsUpTo(_)
TextsUpTo(n) ==
    IF n = 0 THEN {<<>>}
    ELSE LET shorter == TextsUpTo(n - 1)
         IN shorter \cup {Append(s, c) : s \in shorter, c \in {"a", " "}}

\* tags of the select, and tags around the 'en' prefix test
Tags == Languages \cup {MrIN, <<"e", "n">>, <<"e", "n", "-", "G", "B">>, <<"e">>,
                        <<"h", "i">>, <<>>}

TranslateInit ==
    /\ SessionInit
    /\ hasRecognition = TRUE
    /\ tIn \in [text : TextsUpTo(MaxTextLen), target : Tags, source : Tags]
    /\ tOut = NotSettled

CallTranslateText ==
    /\ tOut = NotSettled
    /\ tOut' = TranslateText(tIn.text, tIn.target, tIn.source)
    /\ tIn' = tIn
    /\ UNCHANGED sessionVars

TranslateSpec == TranslateInit /\ [][CallTranslateText]_vars

-----------------------------------------------------------------------------
(* Properties *)

Terminal == {"replied", "apologised"}

\* an exchange that has started and has not made its terminal append
Pending == \E i \in 1..Len(tasks) : tasks[i].pc \notin Terminal

Last(h) == h[Len(h)]

Alternating(h) ==
    \A k \in 1..Len(h) : h[k].role = IF k % 2 = 1 THEN "user" ELSE "model"

\* a step that called handleAskAI
SubmitStep == lastSubmit' # "none"

\* C1: at most one exchange is in flight: an exchange starts only when every
\* earlier one has made its terminal append, and a call of handleAskAI made
\* while an exchange is pending is ignored: it appends no message, issues no
\* call and changes neither the flag nor the text field.
C1_OneExchangeInFlight ==
    /\ [](\A i, j \in 1..Len(tasks) : i < j => tasks[i].pc \in Terminal)
    /\ [][(SubmitStep /\ Pending) =>
            /\ lastSubmit' = "ignored"
            /\ UNCHANGED <<chatHistory, tasks, isLoading, userInput>>]_vars

\* C1 witness: handleAskAI was called with text in the field while an exchange
\* was awaiting the generation service, and was ignored.
C1_Witness ==
    /\ lastSubmit = "ignored"
    /\ Trim(userInput) # <<>>
    /\ \E i \in 1..Len(tasks) : tasks[i].pc = "fetch"

AllReplied == \A i \in 1..Len(tasks) : tasks[i].pc = "replied"

\* C2: when the N exchanges started so far have all completed successfully,
\* the history has exactly 2N messages, alternating user, model, user, model.
C2_TwoMessagesPerExchange ==
    AllReplied => (Len(chatHistory) = 2 * Len(tasks) /\ Alternating(chatHistory))

\* C2 witness: two exchanges have completed successfully.
C2_Witness == AllReplied /\ Len(tasks) = 2 /\ Len(chatHistory) = 4

\* the messages of exchange i in the history: its user message, then the
\* apology and nothing else before the next user message
ApologisedOnce(i) ==
    LET p == Len(tasks[i].updatedHistory)
    IN /\ tasks[i].pc = "apologised"
       /\ Len(chatHistory) > p
       /\ chatHistory[p] = UserMessage(tasks[i].userInput)
       /\ chatHistory[p + 1] = ModelMessage(ApologyText)
       /\ Len(chatHistory) > p + 1 => chatHistory[p + 2].role = "user"
       /\ i = Len(tasks) => (~isLoading /\ Len(chatHistory) = p + 1)

\* the await of the fetch ends with a rejection (transport failure), or the
\* handling of a response that is not 2xx ends (provider failure)
GenerationFails(i) ==
    \/ tasks[i].pc = "fetch" /\ tasks'[i].pc \notin {"fetch", "errorBody", "json"}
    \/ tasks[i].pc = "errorBody" /\ tasks'[i].pc # "errorBody"

\* C3: when the generation call of an exchange fails (the fetch rejects, or
\* the response is not 2xx), that step appends exactly one assistant message
\* with the apology to the history, whose last message was the user message,
\* clears the flag and ends the handler without an unhandled rejection; the
\* apology stays the only message between that user message and the next.
C3_GenerationFailureApology ==
    /\ [][\A i \in 1..Len(tasks) : GenerationFails(i) =>
            /\ Last(chatHistory) = UserMessage(tasks[i].userInput)
            /\ chatHistory' = Append(chatHistory, ModelMessage(ApologyText))
            /\ ~isLoading'
            /\ tasks'[i].pc = "apologised"]_vars
    /\ [](\A i \in 1..Len(tasks) :
            tasks[i].error = "generation" => ApologisedOnce(i))

\* C3 witness: the only call of an English exchange, the generation call,
\* failed; the apology is the last message and the flag is false.
C3_Witness ==
    /\ Len(tasks) > 0
    /\ tasks[Len(tasks)].error = "generation"
    /\ IsEnglish(tasks[Len(tasks)].selectedLanguage)
    /\ Last(chatHistory) = ModelMessage(ApologyText)
    /\ ~isLoading

C5_ExchangeTerminates == (isLoading \/ Pending) ~> (~isLoading /\ ~Pending)

\* C5 witness: an exchange that awaited both translations and the generation
\* service has made its terminal append and the flag is false.
C5_Witness ==
    /\ ~isLoading
    /\ \E i \in 1..Len(tasks) :
          tasks[i].pc = "replied" /\ Len(tasks[i].calls) = 3

\* C6: whenever the last message of the history is a user message the flag is
\* true, and the flag is cleared only by a step that leaves an assistant
\* message at the end of the history.
C6_FlagSpansExchange ==
    /\ []((chatHistory # <<>> /\ Last(chatHistory).role = "user") => isLoading)
    /\ [][(isLoading /\ ~isLoading') =>
            (chatHistory' # <<>> /\ Last(chatHistory').role = "model")]_vars

\* C6 witness: the response has arrived, the reply is not appended yet, and
\* the flag is still true.
C6_Witness ==
    /\ isLoading
    /\ Last(chatHistory).role = "user"
    /\ \E i \in 1..Len(tasks) : tasks[i].pc \in {"json", "translateOut"}

\* C7: the history is append-only: every change adds one message at the end
\* and leaves the others as they were; the user message of exchange i stays
\* where it was appended and the assistant message of the exchange is the
\* next message, never one after a later user message.
C7_AppendOnlyOrdered ==
    /\ [][chatHistory' # chatHistory =>
            /\ Len(chatHistory') = Len(chatHistory) + 1
            /\ SubSeq(chatHistory', 1, Len(chatHistory)) = chatHistory]_vars
    /\ [](\A i \in 1..Len(tasks) :
            LET p == Len(tasks[i].updatedHistory)
            IN /\ p = 2 * i - 1
               /\ Len(chatHistory) >= p
               /\ chatHistory[p] = UserMessage(tasks[i].userInput)
               /\ IF tasks[i].pc \in Terminal
                  THEN Len(chatHistory) > p /\ chatHistory[p + 1].role = "model"
                  ELSE Len(chatHistory) = p)

\* C7 witness: the second exchange is pending after the first was answered.
C7_Witness ==
    /\ Len(tasks) = 2
    /\ Len(chatHistory) = 3
    /\ tasks[1].pc = "replied"
    /\ tasks[2].pc = "json"

\* C8: a call of handleAskAI with empty or whitespace-only text starts no
\* exchange: the history, the flag and the exchanges with their calls are
\* unchanged.
C8_BlankSubmitIgnored ==
    [][(SubmitStep /\ Trim(userInput) = <<>>) =>
          /\ lastSubmit' = "ignored"
          /\ UNCHANGED <<chatHistory, isLoading, tasks>>]_vars

\* C8 witness: handleAskAI was called with whitespace-only text while no
\* exchange was in flight, and was ignored.
C8_Witness ==
    /\ lastSubmit = "ignored"
    /\ userInput = <<" ">>
    /\ ~isLoading

\* the operations of the calls an exchange has issued so far
Ops(calls) == [k \in 1..Len(calls) |-> calls[k].op]

IsPrefix(s, t) == Len(s) <= Len(t) /\ SubSeq(t, 1, Len(s)) = s

\* the text 'en' is a prefix of the tag
StartsWithEn(tag) == Len(tag) >= 2 /\ tag[1] = "e" /\ tag[2] = "n"

\* C9: an exchange whose language is not English calls translate to English,
\* then generate, then translate to its language, in that order and at most
\* once each; the generation call receives the output of the first
\* translation, and when the exchange has replied all three calls were made
\* and the message appended is the output of the second translation.
C9_TranslateGenerateTranslate ==
    \A i \in 1..Len(tasks) :
        LET t == tasks[i]
            c == t.calls
            p == Len(t.updatedHistory)
        IN ~StartsWithEn(t.selectedLanguage) =>
             /\ IsPrefix(Ops(c), <<"translate", "generate", "translate">>)
             /\ Len(c) >= 1 =>
                   c[1] = TranslateCall(t.userInput, EnUS, t.selectedLanguage)
             /\ Len(c) >= 2 =>
                   c[2].text = TranslateText(c[1].text, c[1].target, c[1].source).value
             /\ Len(c) >= 3 => c[3].target = t.selectedLanguage
             /\ t.pc = "replied" =>
                   /\ Len(c) = 3
                   /\ chatHistory[p + 1].text =
                         TranslateText(c[3].text, c[3].target, c[3].source).value

\* C9 witness: a Hindi exchange has replied with the tagged reply.
C9_Witness ==
    \E i \in 1..Len(tasks) :
        /\ tasks[i].selectedLanguage = HiIN
        /\ tasks[i].pc = "replied"
        /\ chatHistory[Len(tasks[i].updatedHistory) + 1].text
              = <<"[", "h", "i", "]", " ", "r", Disclaimer>>

\* C10: translateText called with a target tag that starts with 'en' fulfils
\* with the text unchanged, whatever the text and the source tag.
C10_TranslateToEnglishIsIdentity ==
    (tOut # NotSettled /\ StartsWithEn(tIn.target)) => tOut = Fulfilled(tIn.text)

\* C10 witness: a text with a space was translated to en-GB from hi-IN and
\* came back unchanged.
C10_Witness ==
    /\ tOut = Fulfilled(<<" ", "a">>)
    /\ tIn = [text |-> <<" ", "a">>, target |-> <<"e", "n", "-", "G", "B">>,
              source |-> HiIN]

\* the sentence occurs in the text
Contains(text, sentence) == \E k \in 1..Len(text) : text[k] = sentence

\* C11: for every session language, when the English reply the generation
\* call produced contains the disclaimer sentence, the assistant message
\* appended for that exchange contains the sentence as it was generated.
C11_DisclaimerSurvivesTranslation ==
    \A i \in 1..Len(tasks) :
        LET t == tasks[i]
            p == Len(t.updatedHistory)
        IN (t.pc = "replied" /\ Contains(t.modelResponseInEnglish, Disclaimer)) =>
              /\ chatHistory[p + 1].role = "model"
              /\ Contains(chatHistory[p + 1].text, Disclaimer)

\* C11 witness: a Hindi exchange and an English exchange have both replied to
\* a response that carried the disclaimer.
C11_Witness ==
    /\ Len(tasks) = 2
    /\ tasks[1].selectedLanguage = HiIN
    /\ tasks[2].selectedLanguage = EnUS
    /\ \A i \in 1..2 :
          /\ tasks[i].pc = "replied"
          /\ Contains(tasks[i].modelResponseInEnglish, Disclaimer)
          /\ Contains(chatHistory[2 * i].text, Disclaimer)

\* a transcript is written to the text field in the step
TranscriptWritten == userInput' # userInput /\ userInput' \in Transcripts

\* C12: a toggle while listening cancels the capture: the voice state is idle
\* from that toggle on, and no transcript of the cancelled capture is written
\* to the text field, whatever the recognizer emits afterwards.  The code
\* calls recognition.stop() and keeps onresult attached, so the recognizer's
\* final result of the cancelled capture is written: this formula is violated.
C12_CancelledCaptureWritesNothing ==
    /\ [](recognizer = "stopping" => ~isListening)
    /\ [][recognizer = "stopping" => ~TranscriptWritten]_vars

\* the toggle activates a capture and recognition.start() refuses the language
StartRefused ==
    /\ HandleToggleListening
    /\ hasRecognition /\ ~isListening
    /\ recognizer = "inactive" /\ recognizer' = "inactive"

\* C13: when a capture is activated with a language the platform does not
\* support, the user gets the language-not-supported notice and the voice
\* state is idle, both when start() refuses the language and when the
\* recognizer reports 'language-not-supported' (the only way it leaves the
\* failing state); no transcript is written to the text field by that
\* activation, neither before the report nor between the report and the end.
C13_UnsupportedLanguageNoticed ==
    /\ [][StartRefused =>
             /\ notice' = "languageNotSupported"
             /\ ~isListening'
             /\ ~TranscriptWritten]_vars
    /\ [][recognizer = "failing" =>
             /\ recognizer' \in {"failing", "ending"}
             /\ recognizer' = "ending" =>
                   (notice' = "languageNotSupported" /\ ~isListening')]_vars
    /\ [][(recognizer \in {"failing", "ending"}) =>
             /\ ~TranscriptWritten
             /\ recognizer' \in {"failing", "ending", "inactive"}]_vars

\* C13 witness: the recognizer has reported 'language-not-supported' for a
\* Hindi capture: the notice is shown, the voice state is idle and the text
\* field holds no transcript.
C13_Witness ==
    /\ notice = "languageNotSupported"
    /\ recognizer = "ending"
    /\ selectedLanguage = HiIN
    /\ ~isListening
    /\ userInput \notin Transcripts

\* C14: a voice session does not outlive one capture attempt: the voice state
\* is listening only while the recognizer is started and has raised no event
\* and no cancel was made; a transcript is delivered only by a started
\* recognizer, which then can only end, so an activation delivers at most
\* one; and, the recognizer eventually raising result, error or end, a
\* listening voice state is always eventually followed by idle.
C14_OneCapturePerActivation ==
    /\ [](isListening => recognizer \in {"listening", "failing"})
    /\ [][TranscriptWritten =>
             /\ recognizer \in {"listening", "stopping"}
             /\ recognizer' = "ending"
             /\ ~isListening']_vars
    /\ [][recognizer = "ending" =>
             /\ ~TranscriptWritten
             /\ recognizer' \in {"ending", "inactive"}
             /\ ~isListening']_vars
    /\ (isListening ~> ~isListening)

\* C14 witness: a capture has delivered its transcript while an exchange was
\* in flight; the voice state is idle and the recognizer is ending.
C14_Witness ==
    /\ userInput \in Transcripts
    /\ recognizer = "ending"
    /\ ~isListening
    /\ isLoading

\* a voice capture action or event, or a playback call, happens in the step
CapabilityStep ==
    \/ isListening' # isListening
    \/ recognizer' # recognizer
    \/ TranscriptWritten
    \/ notice' # "none"
    \/ spoken' # NoUtterance

\* C15: every voice capture action and event (activate, cancel, result, error,
\* end, recognition unavailable) and every playback call, with or without
\* speech synthesis, leaves the message history, the in-flight flag and the
\* exchanges unchanged.
C15_CapabilitiesLeaveConversation ==
    [][CapabilityStep => UNCHANGED <<chatHistory, isLoading, tasks>>]_vars

\* C15 witness: while an exchange is in flight a message was played on a
\* platform without speech synthesis.
C15_Witness ==
    /\ notice = "noSpeechSynthesis"
    /\ spoken # NoUtterance
    /\ isLoading
    /\ Last(chatHistory).role = "user"

\* C16: speakText is only called with the text of a message of the history
\* whose role is 'model', and never with the text of a user message.
C16_PlaybackOfModelMessagesOnly ==
    spoken # NoUtterance =>
       /\ \E k \in 1..Len(chatHistory) :
             chatHistory[k] = ModelMessage(spoken.text)
       /\ \A k \in 1..Len(chatHistory) :
             chatHistory[k].role = "user" => chatHistory[k].text # spoken.text

\* C16 witness: the second of four messages, a reply, was played while the
\* history held two user messages.
C16_Witness ==
    /\ Len(chatHistory) = 4
    /\ spoken.text = chatHistory[2].text
    /\ tasks[1].pc = "replied"
    /\ notice = "none"

\* an exchange for the text has completed
Asked(text) ==
    \E i \in 1..Len(tasks) : tasks[i].userInput = text /\ tasks[i].pc \in Terminal

\* the generation calls among the calls of an exchange
GenerateCalls(calls) == {k \in 1..Len(calls) : calls[k].op = "generate"}

\* C17: nothing is cached or de-duplicated: submitting a text equal to that of
\* a completed exchange, while none is in flight, starts a new exchange that
\* appends its own user message and issues its own first call; and every
\* exchange that got past the translation of its input has made exactly one
\* generation call of its own, and when complete has its own user message and
\* its own assistant message in the history.
C17_ResubmissionIsNewExchange ==
    /\ [][(SubmitStep /\ Trim(userInput) # <<>> /\ ~isLoading /\ Asked(userInput)) =>
             /\ lastSubmit' = "started"
             /\ isLoading'
             /\ Len(tasks') = Len(tasks) + 1
             /\ chatHistory' = Append(chatHistory, [role |-> "user", text |-> userInput])
             /\ Last(tasks').calls \in
                   {<<GenerateCall(userInput)>>,
                    <<TranslateCall(userInput, EnUS, selectedLanguage)>>}]_vars
    /\ [](\A i \in 1..Len(tasks) :
            /\ tasks[i].pc \notin {"translateIn", "unhandledRejection"} =>
                  Cardinality(GenerateCalls(tasks[i].calls)) = 1
            /\ tasks[i].pc \in Terminal =>
                  /\ chatHistory[2 * i - 1] = UserMessage(tasks[i].userInput)
                  /\ chatHistory[2 * i].role = "model")

\* C17 witness: the same text was submitted twice in the same language; both
\* exchanges made their generation call, the first was answered and the
\* second, independently, failed.
C17_Witness ==
    /\ Len(tasks) = 2
    /\ tasks[1].userInput = tasks[2].userInput
    /\ tasks[1].selectedLanguage = tasks[2].selectedLanguage
    /\ tasks[1].pc = "replied"
    /\ tasks[2].pc = "apologised"
    /\ \A i \in 1..2 : Cardinality(GenerateCalls(tasks[i].calls)) = 1
    /\ chatHistory[1] = chatHistory[3]
    /\ Len(chatHistory) = 4

\* C18: in every accepted exchange the text the user submitted, as typed and
\* untranslated, is appended to the history before a translation or a
\* generation call is issued: the step that starts the exchange appends it
\* while the history holds no message of the exchange and the exchange has
\* issued no call before, and in every state in which an exchange has issued
\* a call the history holds that user message at the exchange's position.
C18_UserMessageBeforeCalls ==
    /\ [][lastSubmit' = "started" =>
             /\ Len(tasks') = Len(tasks) + 1
             /\ chatHistory' = Append(chatHistory, [role |-> "user", text |-> userInput])
             /\ Last(tasks').updatedHistory = chatHistory'
             /\ Len(Last(tasks').calls) = 1]_vars
    /\ [](\A i \in 1..Len(tasks) :
            Len(tasks[i].calls) > 0 =>
               /\ Len(chatHistory) >= 2 * i - 1
               /\ chatHistory[2 * i - 1] =
                     [role |-> "user", text |-> tasks[i].userInput]
               /\ tasks[i].calls[1].text = tasks[i].userInput)

\* C18 witness: a Hindi exchange awaits the translation of its input, its
\* only call so far, and the last message of the history is the text as
\* typed, with its spaces.
C18_Witness ==
    /\ Len(tasks) = 1
    /\ tasks[1].pc = "translateIn"
    /\ tasks[1].selectedLanguage = HiIN
    /\ Len(tasks[1].calls) = 1
    /\ chatHistory = <<[role |-> "user", text |-> <<" ", "a", " ">>]>>

\* the body parsed in the step holds a text to show
Usable(body) == body.hasText /\ body.text # <<>>

\* exchange i appends its reply in the step
Replies(i) == tasks[i].pc # "replied" /\ tasks'[i].pc = "replied"

\* C19: an exchange whose language is English never calls translateText: its
\* only call is the generation call, made with the text as the user typed
\* it, and the assistant message it appends is the text of the response body
\* as it was parsed.
C19_EnglishPassesThrough ==
    /\ [](\A i \in 1..Len(tasks) :
            StartsWithEn(tasks[i].selectedLanguage) =>
               /\ tasks[i].calls = <<GenerateCall(tasks[i].userInput)>>
               /\ tasks[i].pc \notin {"translateIn", "translateOut"}
               /\ tasks[i].pc = "replied" =>
                     chatHistory[2 * i] =
                        [role |-> "model", text |-> tasks[i].modelResponseInEnglish])
    /\ [][\A i \in 1..Len(tasks) :
            (StartsWithEn(tasks[i].selectedLanguage) /\ Replies(i) /\ Usable(result')) =>
               /\ tasks[i].pc = "json"
               /\ chatHistory' =
                     Append(tasks[i].updatedHistory,
                            [role |-> "model", text |-> result'.text])]_vars

\* C19 witness: an English exchange has replied with the generated text, after
\* one call, the generation call with the typed text.
C19_Witness ==
    /\ Len(tasks) = 1
    /\ tasks[1].selectedLanguage = EnUS
    /\ tasks[1].pc = "replied"
    /\ tasks[1].calls = <<GenerateCall(<<" ", "a", " ">>)>>
    /\ result = [hasText |-> TRUE, text |-> <<"r", Disclaimer>>]
    /\ chatHistory[2].text = <<"r", Disclaimer>>

\* the message an exchange appends for a reply in its language
ReplyMessage(t, text) ==
    [role |-> "model",
     text |-> IF StartsWithEn(t.selectedLanguage) THEN text
              ELSE TranslateText(text, t.selectedLanguage, EnUS).value]

\* C20: a response whose body parses but holds no usable text is not a
\* failure: the exchange goes on on the success path with the placeholder
\* text as its reply, which an English exchange appends at once and another
\* exchange translates first; such an exchange never apologises, and when it
\* has replied the history holds exactly one assistant message for it, built
\* from the placeholder and not the apology, and its flag is cleared.
C20_EmptyResponseIsPlaceholder ==
    /\ [][\A i \in 1..Len(tasks) :
            (tasks[i].pc = "json" /\ tasks'[i].pc # "json"
                /\ result' # NoResult /\ ~Usable(result')) =>
               /\ tasks'[i].modelResponseInEnglish = PlaceholderText
               /\ tasks'[i].error = "none"
               /\ IF StartsWithEn(tasks[i].selectedLanguage)
                  THEN /\ tasks'[i].pc = "replied"
                       /\ chatHistory' = Append(tasks[i].updatedHistory,
                                                ReplyMessage(tasks[i], PlaceholderText))
                       /\ ~isLoading'
                  ELSE /\ tasks'[i].pc = "translateOut"
                       /\ Last(tasks'[i].calls) =
                             TranslateCall(PlaceholderText, tasks[i].selectedLanguage, EnUS)
                       /\ UNCHANGED <<chatHistory, isLoading>>]_vars
    /\ [](\A i \in 1..Len(tasks) :
            tasks[i].modelResponseInEnglish = PlaceholderText =>
               /\ tasks[i].pc \in {"translateOut", "replied"}
               /\ tasks[i].pc = "replied" =>
                     /\ chatHistory[2 * i] = ReplyMessage(tasks[i], PlaceholderText)
                     /\ chatHistory[2 * i].text # ApologyText
                     /\ i = Len(tasks) => (Len(chatHistory) = 2 * i /\ ~isLoading))

\* C20 witness: the response of an English exchange parsed to a body without
\* a text field; the exchange has replied with the placeholder and the flag
\* is cleared.
C20_Witness ==
    /\ Len(tasks) = 1
    /\ tasks[1].selectedLanguage = EnUS
    /\ tasks[1].pc = "replied"
    /\ result = [hasText |-> FALSE, text |-> <<>>]
    /\ chatHistory[2] = [role |-> "model", text |-> PlaceholderText]
    /\ Len(chatHistory) = 2
    /\ ~isLoading

\* exchange i appends the apology in the step
Apologises(i) == tasks[i].pc # "apologised" /\ tasks'[i].pc = "apologised"

\* C21: the apology appended when an exchange fails is the same fixed text
\* in every language: the step that appends it issues no call, the message
\* it appends carries the fixed text itself, no translation call of any
\* exchange was made with that text, and the message stays as appended.
C21_ApologyNeverTranslated ==
    /\ [][\A i \in 1..Len(tasks) :
            Apologises(i) =>
               /\ tasks'[i].calls = tasks[i].calls
               /\ chatHistory' = Append(tasks[i].updatedHistory,
                                        [role |-> "model", text |-> ApologyText])]_vars
    /\ [](\A i \in 1..Len(tasks) :
            /\ tasks[i].pc = "apologised" =>
                  chatHistory[2 * i] = [role |-> "model", text |-> ApologyText]
            /\ \A k \in 1..Len(tasks[i].calls) :
                  tasks[i].calls[k].op = "translate" =>
                     tasks[i].calls[k].text # ApologyText)

\* C21 witness: a Hindi exchange and an English exchange have both failed,
\* and both were answered with the same message.
C21_Witness ==
    /\ Len(tasks) = 2
    /\ tasks[1].selectedLanguage = HiIN
    /\ tasks[2].selectedLanguage = EnUS
    /\ tasks[1].pc = "apologised"
    /\ tasks[2].pc = "apologised"
    /\ chatHistory[2] = chatHistory[4]
    /\ chatHistory[2].text = ApologyText

\* C22: an exchange uses one language throughout, the one selected when it
\* was submitted: the exchange keeps that language whatever is selected
\* later, its first call is a translation to English exactly when that
\* language is not English, every translation it calls names that language
\* as the source of the input or the target of the reply, and the reply it
\* appends is the generated text in that language.
C22_LanguageOfSubmission ==
    /\ [][/\ lastSubmit' = "started" =>
                Last(tasks').selectedLanguage = selectedLanguage
          /\ \A i \in 1..Len(tasks) :
                tasks'[i].selectedLanguage = tasks[i].selectedLanguage]_vars
    /\ [](\A i \in 1..Len(tasks) :
            LET t == tasks[i]
                c == t.calls
            IN /\ c[1].op = (IF StartsWithEn(t.selectedLanguage)
                             THEN "generate" ELSE "translate")
               /\ \A k \in 1..Len(c) :
                     c[k].op = "translate" =>
                        IF k = 1
                        THEN c[k].source = t.selectedLanguage /\ c[k].target = EnUS
                        ELSE c[k].target = t.selectedLanguage
               /\ t.pc = "translateOut" => Last(c).target = t.selectedLanguage
               /\ t.pc = "replied" =>
                     /\ chatHistory[2 * i] = ReplyMessage(t, t.modelResponseInEnglish)
                     /\ StartsWithEn(t.selectedLanguage) <=> Len(c) = 1)

\* C22 witness: the language was changed to English while a Hindi exchange
\* was in flight; the exchange awaits the translation of its reply to Hindi.
C22_Witness ==
    /\ Len(tasks) = 1
    /\ tasks[1].selectedLanguage = HiIN
    /\ selectedLanguage = EnUS
    /\ tasks[1].pc = "translateOut"
    /\ Last(tasks[1].calls).target = HiIN
    /\ isLoading

\* C23: the language-not-supported notice is shown only in a step in which
\* the platform has rejected the language: start() refuses it on a recognizer
\* that was not started, or the recognizer is one that rejects the language
\* of its capture.  The catch of start() shows the notice for every
\* exception, so a start on a recognizer that heard a supported language and
\* has not ended yet, which throws InvalidStateError, shows it too: this
\* formula is violated.
C23_NoticeOnlyOnLanguageRejection ==
    [][notice' = "languageNotSupported" =>
          \/ recognizer = "inactive" /\ recognizer' = "inactive"
          \/ recognizer = "failing"]_vars

\* C24: a reply is played with the language tag of the exchange that appended
\* it, whatever language is selected when it is played (the apology, which
\* is the same in every language, is left aside).  The messages of the
\* history carry no tag and the button passes the language selected at the
\* time of the click, so a reply is played with another tag once the
\* selection has changed: this formula is violated.
C24_PlaybackInLanguageOfExchange ==
    (spoken # NoUtterance /\ spoken.text # ApologyText) =>
       \E i \in 1..Len(tasks) :
          /\ tasks[i].pc = "replied"
          /\ chatHistory[2 * i].text = spoken.text
          /\ tasks[i].selectedLanguage = spoken.lang

=============================================================================
